---- MODULE Spec2Model ----
(***************************************************************************)
(* The framed transport (FramedImpl over a byte connection, with the       *)
(* passthrough Codec or any other Decoder) and the typestate websocket     *)
(* session (AsyncWebsocketClient<T, Status>) of xrpl-rust.                 *)
(*                                                                         *)
(* A poll_* call of the transport runs its loop one iteration per step;    *)
(* while a call is running no other transport operation is enabled, so the *)
(* steps of one call are never interleaved with another call.              *)
(***************************************************************************)
EXTENDS Integers, Sequences, FiniteSets

VARIABLES
    owner,      \* who drives the transport: "Framed" (direct use) or "Session";
                \* "Codec": a bare Codec is used, "txn_flags": no transport at all
    decoder,    \* the Decoder of the transport: "Codec" (passthrough) or "dyn"
    rd,         \* ReadFrame  {eof, is_readable, buffer, has_errored}
    wr,         \* WriteFrame {buffer}
    initial,    \* the bytes the read buffer was built with
    wire,       \* bytes accepted by the connection and not yet read back (loopback)
    delivered,  \* the bytes the connection has handed to reads, in order
    conn,       \* the connection: "none", "up", "closed" (peer closed), "failed"
    shut,       \* the connection was shut down for writing
    call,       \* the Sink call in progress {op, startLen, writes, flushed}
    pull,       \* the poll_next call in progress {active, reads, decodes}
    ret,        \* what the latest step returned
                \* {op, val, err, startLen, writes, reads, decodes, dec, errored}
    io,         \* the connection call made by the latest step {kind, res, n}
    eofCall,    \* the decode_eof call made by the latest step {called, dec, empty, out, err}
    enq,        \* the values enqueued by start_send, in order
    yielded,    \* the frames yielded by poll_next, in order
    status,     \* the session's type tag: "Closed", "Open", "consumed", "NoSession"
    sop,        \* the session method in progress: "none", "on_message", "close"
    sres,       \* what the latest session method returned {op, on, val}
    writeLens,  \* the lengths of the writes made to the loopback of a bare Codec
    txn,        \* a transaction's flags field through txn_flags {enum, flags, num, out, stage}
    admitted,   \* in a session: poll_ready has returned Ok since the latest start_send
    gate        \* the runtime-gated Websocket client: its two Options (is it Some),
                \* the latest method called on it, what is_open() returned to it,
                \* the do_ method it called, its result, and the calls so far
                \* {websocket, messages, op, wasOpen, did, res, log}

vars == <<owner, decoder, rd, wr, initial, wire, delivered, conn, shut, call, pull, ret, io, eofCall,
          enq, yielded, status, sop, sres, writeLens, txn, admitted, gate>>

----------------------------------------------------------------------------
(* Program constants *)

INITIAL_CAPACITY == 8 * 1024
BACKPRESSURE_BOUNDARY == INITIAL_CAPACITY

(* Bounds of the model *)

\* start_send calls in one behaviour
MaxSends == 2
\* largest short read / short write enumerated
MaxChunk == 2
\* longest list of flags given to a transaction
MaxFlags == 2
\* writes made to the loopback of a bare Codec in one behaviour
MaxWrites == 3
\* largest write the loopback of a bare Codec accepts
MaxWriteLen == 4

\* the most methods called on a runtime-gated Websocket client
MaxCalls == 3

----------------------------------------------------------------------------
(* Byte strings, kept run-length encoded: a sequence of runs {b, n}, n > 0,  *)
(* neighbouring runs of different bytes, so that equal strings are equal   *)

Min(a, b) == IF a < b THEN a ELSE b

Run(b, n) == [b |-> b, n |-> n]

Empty == <<>>

\* the string of the bytes of a tuple
RECURSIVE Bytes(_)
Bytes(t) ==
    IF t = <<>> THEN Empty
    ELSE LET rest == Bytes(Tail(t)) IN
         IF rest # <<>> /\ rest[1].b = t[1]
         THEN <<Run(t[1], rest[1].n + 1)>> \o Tail(rest)
         ELSE <<Run(t[1], 1)>> \o rest

\* the number of bytes of a string
RECURSIVE BLen(_)
BLen(s) == IF s = <<>> THEN 0 ELSE s[1].n + BLen(Tail(s))

\* the bytes of a followed by the bytes of c
Cat(a, c) ==
    IF a = <<>> THEN c
    ELSE IF c = <<>> THEN a
    ELSE IF a[Len(a)].b = c[1].b
    THEN SubSeq(a, 1, Len(a) - 1) \o <<Run(c[1].b, a[Len(a)].n + c[1].n)>> \o Tail(c)
    ELSE a \o c

\* the first k bytes of s
RECURSIVE Take(_, _)
Take(s, k) ==
    IF k = 0 \/ s = <<>> THEN Empty
    ELSE IF s[1].n <= k THEN <<s[1]>> \o Take(Tail(s), k - s[1].n)
    ELSE <<Run(s[1].b, k)>>

\* s without its first k bytes
RECURSIVE Drop(_, _)
Drop(s, k) ==
    IF k = 0 \/ s = <<>> THEN s
    ELSE IF s[1].n <= k THEN Drop(Tail(s), k - s[1].n)
    ELSE <<Run(s[1].b, s[1].n - k)>> \o Tail(s)

\* split_off taken for split_to: the tail is split off and the head kept
SplitOff(buf, n) == [frame |-> Drop(buf, n), rest |-> Take(buf, n)]

\* BytesMut::split_to(n): the first n bytes are split off
SplitTo(buf, n) == [frame |-> Take(buf, n), rest |-> Drop(buf, n)]

\* Buf::advance(n): the first n bytes are dropped
Advance(buf, n) == Drop(buf, n)

\* a value two bytes short of the backpressure boundary
BigItem == <<Run(0, BACKPRESSURE_BOUNDARY - 2)>>

\* the values handed to start_send by a direct user of the transport
Items == {Bytes(<<7, 9>>), BigItem}

\* the value "hello world"
HelloWorld == Bytes(<<104, 101, 108, 108, 111, 32, 119, 111, 114, 108, 100>>)

\* the values handed to the encode of a bare Codec
CodecItems == {HelloWorld, Bytes(<<7, 9>>)}

\* the requests handed to the session's send
Requests == {1, 2}

\* serde_json::to_string(&request): the request between braces
ToJsonString(request) == Bytes(<<123, 48 + request, 125>>)

\* counts a short write (or read) of len bytes may report: all of them, all
\* but a few, or, of a short string, a few
ShortCounts(len) ==
    {k \in ((len - MaxChunk)..len) \cup (1..MaxChunk) :
        /\ 1 <= k /\ k <= len
        /\ (len - k <= MaxChunk \/ len < 2 * MaxChunk)}

----------------------------------------------------------------------------
(* Codec *)

NoFrame == Empty

DecOk(frame, buf) == [tag |-> "Some", frame |-> frame, buf |-> buf, err |-> ""]
DecNone(buf) == [tag |-> "None", frame |-> NoFrame, buf |-> buf, err |-> ""]
DecErr(buf, e) == [tag |-> "Err", frame |-> NoFrame, buf |-> buf, err |-> e]

\* an encode that puts the bytes in front of the buffer's
EncodePrepends(data, buf) == Cat(data, buf)

\* impl Encoder<&[u8]> for Codec: reserve, then put the bytes at the tail
Encode(data, buf) == Cat(buf, data)

\* the buffer after encoding the values of items, in order, into buf
RECURSIVE EncodeAll(_, _)
EncodeAll(items, buf) ==
    IF items = <<>> THEN buf ELSE EncodeAll(Tail(items), Encode(items[1], buf))

\* a decode that waits for a line: None until the buffer ends with a newline
CodecDecodeLine(buf) ==
    IF buf # <<>> /\ buf[Len(buf)].b = 10
    THEN LET s == SplitTo(buf, BLen(buf)) IN DecOk(s.frame, s.rest)
    ELSE DecNone(buf)

\* impl Decoder for Codec: the whole buffer is one frame
CodecDecode(buf) ==
    IF buf # <<>>
    THEN LET s == SplitTo(buf, BLen(buf)) IN DecOk(s.frame, s.rest)
    ELSE DecNone(buf)

\* Decoder::decode of any other implementor: a frame split off the front,
\* None with the buffer untouched, or an error
DynDecode(buf) ==
    {DecNone(buf), DecErr(buf, "DecodeFailed")}
    \cup {LET s == SplitTo(buf, n) IN DecOk(s.frame, s.rest) : n \in 1..Min(BLen(buf), MaxChunk)}

\* the results decode may give on buf
Decode(buf) == IF decoder = "Codec" THEN {CodecDecode(buf)} ELSE DynDecode(buf)

\* a defective decode_eof that ends the stream cleanly whatever is left
DecodeEofDropsLeftover(d) ==
    IF d.tag = "None" THEN DecNone(d.buf) ELSE d

\* Decoder::decode_eof (default), applied to the result d of decode
DecodeEof(d) ==
    CASE d.tag = "Err" -> d
      [] d.tag = "Some" -> d
      [] OTHER -> IF d.buf = <<>> THEN DecNone(d.buf) ELSE DecErr(d.buf, "DecodeError")

----------------------------------------------------------------------------
(* Frame buffers *)

\* impl Default for ReadFrame
ReadFrameDefault ==
    [eof |-> FALSE, is_readable |-> FALSE, buffer |-> Empty, has_errored |-> FALSE]

\* impl From<BytesMut> for ReadFrame: readable when the buffer has capacity
ReadFrameFrom(buffer, capacity) ==
    [eof |-> FALSE, is_readable |-> capacity > 0, buffer |-> buffer, has_errored |-> FALSE]

\* impl Default for WriteFrame
WriteFrameDefault == [buffer |-> Empty]

\* the buffers a transport may be built around, with their capacity
InitBuffers ==
    {[bytes |-> Empty, cap |-> 4], [bytes |-> Bytes(<<5, 6>>), cap |-> 2]}

----------------------------------------------------------------------------
(* Ghost records *)

\* the return of a call: startLen is the write buffer's length when the call
\* began, writes and reads count the connection writes and reads it made,
\* decodes the decode and decode_eof calls it made, dec what the decode or
\* decode_eof call of its latest iteration returned, errored whether has_errored
\* was set when its latest iteration began
NoRet ==
    [op |-> "none", val |-> "none", err |-> "", startLen |-> 0, writes |-> 0, reads |-> 0,
     decodes |-> 0, dec |-> "none", errored |-> FALSE]
Running(op) == [NoRet EXCEPT !.op = op, !.val = "running"]
SinkRunning(c) == [Running(c.op) EXCEPT !.startLen = c.startLen, !.writes = c.writes]
Ret(op, val, err) == [NoRet EXCEPT !.op = op, !.val = val, !.err = err]
SinkRet(c, val, err) ==
    [NoRet EXCEPT !.op = c.op, !.val = val, !.err = err,
                  !.startLen = c.startLen, !.writes = c.writes]

NoIo == [kind |-> "none", res |-> "none", n |-> 0]
Io(kind, res, n) == [kind |-> kind, res |-> res, n |-> n]

\* a decode_eof call: what its decode returned, whether that left the buffer
\* empty, and what decode_eof returned
NoEofCall == [called |-> FALSE, dec |-> "none", empty |-> TRUE, out |-> "none", err |-> ""]
EofCall(d, r) ==
    [called |-> TRUE, dec |-> d.tag, empty |-> d.buf = Empty, out |-> r.tag, err |-> r.err]

Idle == [op |-> "idle", startLen |-> 0, writes |-> 0, flushed |-> FALSE]
NoPull == [active |-> FALSE, reads |-> 0, decodes |-> 0]

\* Option<Vec<F>>: None and Some(vec)
NoFlags == [some |-> FALSE, vec |-> <<>>]
SomeFlags(vec) == [some |-> TRUE, vec |-> vec]

\* no transaction: flags as given, num the u32 written, out the flags read back
NoTxn == [enum |-> "none", flags |-> NoFlags, num |-> 0, out |-> NoFlags, stage |-> "none"]

\* the runtime-gated client as AsyncWebsocketClient::new leaves it, no method called yet
NoGate ==
    [websocket |-> FALSE, messages |-> FALSE, op |-> "none", wasOpen |-> FALSE,
     did |-> "none", res |-> "none", log |-> <<>>]

NoSres == [op |-> "none", on |-> "none", val |-> "none"]
Sres(op, on, val) == [op |-> op, on |-> on, val |-> val]

----------------------------------------------------------------------------
(* The underlying connection *)

\* what a write of buf to the connection may report
WriteOutcomes(buf) ==
    IF conn = "up" /\ ~shut
    THEN {[res |-> "Pending", n |-> 0], [res |-> "Ok", n |-> 0]}
         \cup {[res |-> "Ok", n |-> k] : k \in ShortCounts(BLen(buf))}
    ELSE {[res |-> "Err", n |-> 0]}

\* what a read from the connection may report: k bytes put in the spare
\* capacity, 0 at end of stream, Pending when nothing is there yet
ReadOutcomes ==
    IF conn = "failed" THEN {[res |-> "Err", k |-> 0]}
    ELSE IF wire # <<>> THEN {[res |-> "Ok", k |-> k] : k \in ShortCounts(BLen(wire))}
    ELSE IF conn = "closed" \/ shut THEN {[res |-> "Ok", k |-> 0]}
    ELSE {[res |-> "Pending", k |-> 0]}

\* what flush() and shutdown() of the connection may report
InnerOutcomes == IF conn = "up" THEN {"Ok", "Pending"} ELSE {"Err"}

\* a poll_write_buf that empties the buffer after a write, however short
PollWriteBufClears(buf, w) ==
    IF buf = <<>> THEN [res |-> "Ok", n |-> 0, buf |-> buf]
    ELSE IF w.res = "Ok" THEN [res |-> "Ok", n |-> w.n, buf |-> Empty]
    ELSE [res |-> w.res, n |-> 0, buf |-> buf]

\* a poll_write_buf that reports the count written and leaves the bytes in
\* the buffer
PollWriteBufKeeps(buf, w) ==
    IF buf = <<>> THEN [res |-> "Ok", n |-> 0, buf |-> buf]
    ELSE IF w.res = "Ok" THEN [res |-> "Ok", n |-> w.n, buf |-> buf]
    ELSE [res |-> w.res, n |-> 0, buf |-> buf]

\* poll_write_buf: nothing to write gives 0; else write the chunk and advance
PollWriteBuf(buf, w) ==
    IF buf = <<>> THEN [res |-> "Ok", n |-> 0, buf |-> buf]
    ELSE IF w.res = "Ok" THEN [res |-> "Ok", n |-> w.n, buf |-> Advance(buf, w.n)]
    ELSE [res |-> w.res, n |-> 0, buf |-> buf]

\* poll_read_buf: the count it returns and advances the buffer by is the
\* length of the slice &dst[..0] taken before the read, not the count read
PollReadBuf(buf, o) ==
    IF o.res = "Ok"
    THEN LET slice == Take(Take(wire, o.k), 0)
             n == BLen(slice)
         IN [res |-> "Ok", n |-> n, buf |-> Cat(buf, Take(wire, n))]
    ELSE [res |-> o.res, n |-> 0, buf |-> buf]

----------------------------------------------------------------------------
(* Sink for FramedImpl *)

\* a poll_ready that lets the buffer reach the boundary before flushing
NeedsFlushAboveOnly(len) == len > BACKPRESSURE_BOUNDARY

\* poll_ready: the buffer is at or above the backpressure boundary
NeedsFlush(len) == len >= BACKPRESSURE_BOUNDARY

\* a flush that goes on writing after a write of 0 bytes
AfterWriteRetries(n) == "continue"

\* poll_flush, after a write of n bytes: 0 bytes is fatal
AfterWrite(n) == IF n = 0 THEN "WriteToTransport" ELSE "continue"

\* a close that shuts the connection down whatever the flush returned
CloseSwallowsFlush(f) == IF f.val \in {"Ok", "Err"} THEN "shutdown" ELSE "return"

\* poll_close, after poll_flush returned f: ready!(..)? returns Pending and
\* errors, only Ok goes on to the shutdown
CloseAfterFlush(f) == IF f.val = "Ok" THEN "shutdown" ELSE "return"

\* a flush with an `if` for the `while`: after one write that was accepted it
\* goes on to flush the connection, whatever is left in the buffer
FlushIterOnce(buf) ==
    IF buf # <<>>
    THEN UNION {LET r == PollWriteBuf(buf, w)
                    v == IF r.res = "Ok" THEN AfterWrite(r.n) ELSE r.res
                IN IF v = "continue"
                   THEN {[val |-> f, err |-> IF f = "Err" THEN "FlushError" ELSE "",
                          buf |-> r.buf, acc |-> Take(buf, r.n),
                          io |-> Io("flush", f, 0)] : f \in InnerOutcomes}
                   ELSE {[val |-> IF v = "WriteToTransport" THEN "Err" ELSE v,
                          err |-> IF v = "WriteToTransport" THEN v
                                  ELSE IF v = "Err" THEN "WriteError" ELSE "",
                          buf |-> r.buf, acc |-> Take(buf, r.n),
                          io |-> Io("write", r.res, r.n)]} : w \in WriteOutcomes(buf)}
    ELSE {[val |-> f, err |-> IF f = "Err" THEN "FlushError" ELSE "",
           buf |-> buf, acc |-> Empty, io |-> Io("flush", f, 0)] : f \in InnerOutcomes}

\* one iteration of poll_flush's loop on buf: the set of its results
\* {val, err, buf, acc, io}; val "continue" loops again
FlushIter(buf) ==
    IF buf # <<>>
    THEN {LET r == PollWriteBuf(buf, w)
              v == IF r.res = "Ok" THEN AfterWrite(r.n) ELSE r.res
          IN [val |-> IF v = "WriteToTransport" THEN "Err" ELSE v,
              err |-> IF v = "WriteToTransport" THEN v
                      ELSE IF v = "Err" THEN "WriteError" ELSE "",
              buf |-> r.buf,
              acc |-> Take(buf, r.n),
              io |-> Io("write", r.res, r.n)] : w \in WriteOutcomes(buf)}
    ELSE {[val |-> f, err |-> IF f = "Err" THEN "FlushError" ELSE "",
           buf |-> buf, acc |-> Empty, io |-> Io("flush", f, 0)] : f \in InnerOutcomes}

\* the call record of the iteration now run by op: a new call or the one going on
CallOf(op) ==
    IF call.op = op THEN call
    ELSE [op |-> op, startLen |-> BLen(wr.buffer), writes |-> 0, flushed |-> FALSE]

\* the writes of a call, counting the one of iteration f
Wrote(writes, f) == IF f.io.kind = "write" /\ f.io.res = "Ok" THEN writes + 1 ELSE writes

\* the transport is free for a new call, or op is the call going on
MayRun(op) == conn # "none" /\ ~pull.active /\ call.op \in {"idle", op}

\* poll_flush, one iteration
PollFlushStep ==
    /\ MayRun("poll_flush")
    /\ \E f \in FlushIter(wr.buffer) :
         LET c == [CallOf("poll_flush") EXCEPT !.writes = Wrote(@, f)] IN
         /\ wr' = [wr EXCEPT !.buffer = f.buf]
         /\ wire' = Cat(wire, f.acc)
         /\ io' = f.io
         /\ IF f.val = "continue"
            THEN call' = c /\ ret' = SinkRunning(c)
            ELSE call' = Idle /\ ret' = SinkRet(c, f.val, f.err)
    /\ eofCall' = NoEofCall
    /\ UNCHANGED <<rd, initial, delivered, shut, enq, yielded, admitted>>

\* poll_ready: immediate below the boundary, else poll_flush
PollReadyStep ==
    /\ MayRun("poll_ready")
    /\ IF call.op = "idle" /\ ~NeedsFlush(BLen(wr.buffer))
       THEN /\ call' = Idle
            /\ ret' = SinkRet(CallOf("poll_ready"), "Ok", "")
            /\ io' = NoIo
            /\ UNCHANGED <<wr, wire>>
       ELSE \E f \in FlushIter(wr.buffer) :
              LET c == [CallOf("poll_ready") EXCEPT !.writes = Wrote(@, f)] IN
              /\ wr' = [wr EXCEPT !.buffer = f.buf]
              /\ wire' = Cat(wire, f.acc)
              /\ io' = f.io
              /\ IF f.val = "continue"
                 THEN call' = c /\ ret' = SinkRunning(c)
                 ELSE call' = Idle /\ ret' = SinkRet(c, f.val, f.err)
    /\ eofCall' = NoEofCall
    /\ admitted' = (owner = "Session" /\ (admitted \/ ret'.val = "Ok"))
    /\ UNCHANGED <<rd, initial, delivered, shut, enq, yielded>>

\* a start_send that writes the encoded value through to the connection at once
StartSendStepWrites(item) ==
    /\ MayRun("start_send")
    /\ call.op = "idle"
    /\ Len(enq) < MaxSends
    /\ wr' = [wr EXCEPT !.buffer = Empty]
    /\ wire' = Cat(wire, Encode(item, wr.buffer))
    /\ enq' = Append(enq, item)
    /\ call' = Idle
    /\ ret' = SinkRet(CallOf("start_send"), "Ok", "")
    /\ io' = Io("write", "Ok", BLen(Encode(item, wr.buffer)))
    /\ eofCall' = NoEofCall
    /\ admitted' = FALSE
    /\ UNCHANGED <<rd, initial, delivered, shut, yielded>>

\* start_send: encode the value into the write buffer
StartSendStep(item) ==
    /\ MayRun("start_send")
    /\ call.op = "idle"
    /\ Len(enq) < MaxSends
    /\ wr' = [wr EXCEPT !.buffer = Encode(item, @)]
    /\ enq' = Append(enq, item)
    /\ call' = Idle
    /\ ret' = SinkRet(CallOf("start_send"), "Ok", "")
    /\ io' = NoIo
    /\ eofCall' = NoEofCall
    /\ admitted' = FALSE
    /\ UNCHANGED <<rd, initial, wire, delivered, shut, yielded>>

\* poll_close, one iteration: the flush loop, then the shutdown
PollCloseStep ==
    /\ MayRun("poll_close")
    /\ LET c0 == CallOf("poll_close") IN
       IF ~c0.flushed
       THEN \E f \in FlushIter(wr.buffer) :
              LET c == [c0 EXCEPT !.writes = Wrote(@, f)] IN
              /\ wr' = [wr EXCEPT !.buffer = f.buf]
              /\ wire' = Cat(wire, f.acc)
              /\ io' = f.io
              /\ shut' = shut
              /\ IF f.val = "continue"
                 THEN call' = c /\ ret' = SinkRunning(c)
                 ELSE IF CloseAfterFlush(f) = "shutdown"
                 THEN call' = [c EXCEPT !.flushed = TRUE]
                      /\ ret' = SinkRunning(c)
                 ELSE call' = Idle /\ ret' = SinkRet(c, f.val, f.err)
       ELSE \E s \in InnerOutcomes :
              /\ io' = Io("shutdown", s, 0)
              /\ shut' = (shut \/ s = "Ok")
              /\ call' = Idle
              /\ ret' = SinkRet(c0, s, IF s = "Err" THEN "ShutdownError" ELSE "")
              /\ UNCHANGED <<wr, wire>>
    /\ eofCall' = NoEofCall
    /\ UNCHANGED <<rd, initial, delivered, enq, yielded, admitted>>

----------------------------------------------------------------------------
(* Stream for FramedImpl *)

\* a pull that leaves has_errored set when it starts with it
ClearErroredKeepsFlag(r) == [r EXCEPT !.is_readable = FALSE]

\* a pull that clears has_errored alone when it starts with it
ClearErroredKeepsReadable(r) == [r EXCEPT !.has_errored = FALSE]

\* poll_next, begun with has_errored: both flags are cleared
ClearErrored(r) == [r EXCEPT !.is_readable = FALSE, !.has_errored = FALSE]

\* a failure that is returned without the read frame being marked
ErroredNotMarked(r) == r

\* map_err(|err| { state.has_errored = true; err }) on decode, decode_eof and
\* poll_read_buf
Errored(r) == [r EXCEPT !.has_errored = TRUE]

\* an end-of-stream branch that stops decoding after the first frame
ReadableAfterEofCleared(r, f) == FALSE

\* the end-of-stream branch: if frame.is_none() { state.is_readable = false }
ReadableAfterEof(r, f) == IF f.tag = "None" THEN FALSE ELSE r.is_readable

\* a read that would block taken for a read of 0 bytes
SuspendedAtEof(r) == [r EXCEPT !.eof = TRUE, !.is_readable = TRUE]

\* Poll::Pending => return Poll::Pending: the read frame is left as it is
Suspended(r) == r

\* one iteration of poll_next's loop on the read frame r: the set of its
\* results {rd, val, err, frame, k, io, eofCall, read, dec};
\* val "continue" loops again, k bytes were taken from the connection, dec is
\* what the decode or decode_eof call returned ("none": no such call)
PollNextIter(r) ==
    LET Res(r2, val, err, frame, k, i, e, read, dec) ==
            [rd |-> r2, val |-> val, err |-> err, frame |-> frame, k |-> k,
             io |-> i, eofCall |-> e, read |-> read, dec |-> dec]
        \* state.buffer.reserve(1); poll_read_buf; the end-of-stream bookkeeping
        ReadPart(r1, dec) ==
            {LET b == PollReadBuf(r1.buffer, o) IN
             CASE b.res = "Err" ->
                    Res(Errored(r1), "Err", "ReadError", NoFrame, 0,
                        Io("read", "Err", 0), NoEofCall, TRUE, dec)
               [] b.res = "Pending" ->
                    Res(Suspended(r1), "Pending", "", NoFrame, 0,
                        Io("read", "Pending", 0), NoEofCall, TRUE, dec)
               [] OTHER ->
                    IF b.n = 0
                    THEN IF r1.eof
                         THEN Res([r1 EXCEPT !.buffer = b.buf], "None", "", NoFrame, o.k,
                                  Io("read", "Ok", b.n), NoEofCall, TRUE, dec)
                         ELSE Res([r1 EXCEPT !.buffer = b.buf, !.eof = TRUE,
                                              !.is_readable = TRUE],
                                  "continue", "", NoFrame, o.k,
                                  Io("read", "Ok", b.n), NoEofCall, TRUE, dec)
                    ELSE Res([r1 EXCEPT !.buffer = b.buf, !.eof = FALSE,
                                         !.is_readable = TRUE],
                             "continue", "", NoFrame, o.k,
                             Io("read", "Ok", b.n), NoEofCall, TRUE, dec)
             : o \in ReadOutcomes}
    IN
    IF r.has_errored
    THEN {Res(ClearErrored(r), "None", "", NoFrame, 0, NoIo, NoEofCall, FALSE, "none")}
    ELSE IF r.is_readable
    THEN IF r.eof
         THEN {LET f == DecodeEof(d)
                   e == EofCall(d, f)
               IN CASE f.tag = "Err" ->
                         Res(Errored([r EXCEPT !.buffer = f.buf]),
                             "Err", f.err, NoFrame, 0, NoIo, e, FALSE, f.tag)
                    [] OTHER ->
                         Res([r EXCEPT !.buffer = f.buf, !.is_readable = ReadableAfterEof(r, f)],
                             f.tag, "", f.frame, 0, NoIo, e, FALSE, f.tag)
               : d \in Decode(r.buffer)}
         ELSE UNION {CASE d.tag = "Err" ->
                            {Res(Errored([r EXCEPT !.buffer = d.buf]),
                                 "Err", d.err, NoFrame, 0, NoIo, NoEofCall, FALSE, d.tag)}
                       [] d.tag = "Some" ->
                            {Res([r EXCEPT !.buffer = d.buf],
                                 "Some", "", d.frame, 0, NoIo, NoEofCall, FALSE, d.tag)}
                       [] OTHER ->
                            ReadPart([r EXCEPT !.buffer = d.buf, !.is_readable = FALSE], d.tag)
                     : d \in Decode(r.buffer)}
    ELSE ReadPart(r, "none")

\* poll_next, one iteration
PollNextStep ==
    /\ conn # "none"
    /\ call.op = "idle"
    /\ \E p \in PollNextIter(rd) :
         LET reads == pull.reads + (IF p.read THEN 1 ELSE 0)
             decodes == pull.decodes + (IF p.dec # "none" THEN 1 ELSE 0)
         IN
         /\ rd' = p.rd
         /\ wire' = Advance(wire, p.k)
         /\ delivered' = Cat(delivered, Take(wire, p.k))
         /\ io' = p.io
         /\ eofCall' = p.eofCall
         /\ yielded' = IF p.val = "Some" THEN Append(yielded, p.frame) ELSE yielded
         /\ IF p.val = "continue"
            THEN /\ pull' = [active |-> TRUE, reads |-> reads, decodes |-> decodes]
                 /\ ret' = [Running("poll_next") EXCEPT !.reads = reads,
                               !.decodes = decodes, !.dec = p.dec,
                               !.errored = rd.has_errored]
            ELSE /\ pull' = NoPull
                 /\ ret' = [Ret("poll_next", p.val, p.err) EXCEPT !.reads = reads,
                               !.decodes = decodes, !.dec = p.dec,
                               !.errored = rd.has_errored]
    /\ UNCHANGED <<wr, initial, shut, call, enq, admitted>>

----------------------------------------------------------------------------
(* The connection's peer *)

\* the peer closes the connection
PeerClose ==
    /\ conn = "up"
    /\ conn' = "closed"
    /\ ret' = NoRet /\ io' = NoIo /\ eofCall' = NoEofCall
    /\ UNCHANGED <<owner, decoder, rd, wr, initial, wire, delivered, shut, call, pull,
                   enq, yielded, status, sop, sres, writeLens, txn, admitted, gate>>

\* the connection fails
ConnFail ==
    /\ conn = "up"
    /\ conn' = "failed"
    /\ ret' = NoRet /\ io' = NoIo /\ eofCall' = NoEofCall
    /\ UNCHANGED <<owner, decoder, rd, wr, initial, wire, delivered, shut, call, pull,
                   enq, yielded, status, sop, sres, writeLens, txn, admitted, gate>>

----------------------------------------------------------------------------
(* Direct use of the transport (Framed) *)

Direct ==
    owner = "Framed" /\ UNCHANGED <<owner, decoder, conn, status, sop, sres, writeLens, txn, gate>>

PollReady == Direct /\ PollReadyStep /\ UNCHANGED pull
StartSend == Direct /\ (\E item \in Items : StartSendStep(item)) /\ UNCHANGED pull
PollFlush == Direct /\ PollFlushStep /\ UNCHANGED pull
PollClose == Direct /\ PollCloseStep /\ UNCHANGED pull
PollNext == Direct /\ PollNextStep

----------------------------------------------------------------------------
(* AsyncWebsocketClient<T, Status> *)

\* a close(&mut self) that leaves the session in the caller's hands
ExposesAfterClose(tag, method) ==
    \/ method = "open" /\ tag = "Closed"
    \/ method \in {"send", "on_message", "close"} /\ tag \in {"Open", "consumed"}

\* the methods the impl blocks give a session of each tag: open on Closed
\* (WebsocketOpen), send, on_message (WebsocketIO) and close (WebsocketClose)
\* on Open; a consumed session has none
Exposes(tag, method) ==
    \/ method = "open" /\ tag = "Closed"
    \/ method \in {"send", "on_message", "close"} /\ tag = "Open"

\* is_open: the type name of Status is the type name of Open
IsOpen(tag) == tag = "Open"

\* what connect_async may give
Handshakes == {"Ok", "Err"}

\* open: connect_async(uri).await.unwrap(), then the Open session
Open ==
    /\ owner = "Session"
    /\ Exposes(status, "open")
    /\ sop = "none"
    /\ \E h \in Handshakes :
         /\ IF h = "Ok"
            THEN /\ status' = "Open"
                 /\ conn' = "up"
                 /\ sres' = Sres("open", status, "Ok")
            ELSE /\ status' = status
                 /\ conn' = conn
                 /\ sres' = Sres("open", status, "panic")
         /\ io' = Io("connect", h, 0)
    /\ ret' = NoRet /\ eofCall' = NoEofCall
    /\ UNCHANGED <<owner, decoder, rd, wr, initial, wire, delivered, shut, call, pull,
                   enq, yielded, sop, writeLens, txn, admitted, gate>>

\* send: the request as JSON text, then start_send on the inner sink
Send ==
    /\ owner = "Session"
    /\ Exposes(status, "send")
    /\ sop = "none"
    /\ \E request \in Requests : StartSendStep(ToJsonString(request))
    /\ sres' = Sres("send", status, IF ret'.val = "Ok" THEN "Ok" ELSE "Tungstenite")
    /\ UNCHANGED <<owner, decoder, conn, pull, status, sop, writeLens, txn, gate>>

\* try_next: the item of the stream as a Result<Option<Message>>
TryNext(r) ==
    CASE r.val = "Some" -> "OkSome"
      [] r.val = "None" -> "OkNone"
      [] OTHER -> "Tungstenite"

\* on_message: inner.try_next().await, polled until it is ready
OnMessage ==
    /\ owner = "Session"
    /\ Exposes(status, "on_message")
    /\ sop \in {"none", "on_message"}
    /\ PollNextStep
    /\ IF ret'.val \in {"running", "Pending"}
       THEN sop' = "on_message" /\ sres' = sres
       ELSE sop' = "none" /\ sres' = Sres("on_message", status, TryNext(ret'))
    /\ UNCHANGED <<owner, decoder, conn, status, writeLens, txn, gate>>

\* close(mut self): inner.close().await, polled until it is ready; the
\* session is consumed
Close ==
    /\ owner = "Session"
    /\ Exposes(status, "close")
    /\ sop \in {"none", "close"}
    /\ PollCloseStep
    /\ IF ret'.val \in {"running", "Pending"}
       THEN sop' = "close" /\ sres' = sres /\ status' = status
       ELSE /\ sop' = "none"
            /\ status' = "consumed"
            /\ sres' = Sres("close", status, IF ret'.val = "Ok" THEN "Ok" ELSE "Tungstenite")
    /\ UNCHANGED <<owner, decoder, conn, pull, writeLens, txn, gate>>

----------------------------------------------------------------------------
(* Specification *)

Init ==
    /\ owner \in {"Framed", "Session"}
    /\ IF owner = "Framed"
       THEN /\ decoder \in {"Codec", "dyn"}
            /\ rd \in {ReadFrameDefault}
                      \cup {ReadFrameFrom(b.bytes, b.cap) : b \in InitBuffers}
            /\ decoder = "dyn" => rd.buffer # Empty
            /\ conn = "up"
            /\ status = "NoSession"
       ELSE /\ decoder = "Codec"
            /\ rd = ReadFrameDefault
            /\ conn = "none"
            /\ status = "Closed"
    /\ wr = WriteFrameDefault
    /\ initial = rd.buffer
    /\ wire = Empty
    /\ delivered = Empty
    /\ shut = FALSE
    /\ call = Idle
    /\ pull = NoPull
    /\ ret = NoRet
    /\ io = NoIo
    /\ eofCall = NoEofCall
    /\ enq = <<>>
    /\ yielded = <<>>
    /\ sop = "none"
    /\ sres = NoSres
    /\ writeLens = <<>>
    /\ txn = NoTxn
    /\ admitted = FALSE
    /\ gate = NoGate

Next ==
    \/ PollReady
    \/ StartSend
    \/ PollFlush
    \/ PollClose
    \/ PollNext
    \/ Open
    \/ Send
    \/ OnMessage
    \/ Close
    \/ PeerClose
    \/ ConnFail

Spec == Init /\ [][Next]_vars

----------------------------------------------------------------------------
(* A flush driven to completion: the caller of flush().await polls          *)
(* poll_flush until it is ready, on a write buffer that holds the values    *)
(* enqueued before                                                          *)

\* the values enqueued before the flush
ItemSeqs == UNION {[1..n -> Items] : n \in 1..MaxSends}

\* poll_flush has returned Ready: the caller polls no more
FlushReady == ret.op = "poll_flush" /\ ret.val \in {"Ok", "Err"}

\* one poll of the flush
FlushAwait ==
    /\ owner = "Flush"
    /\ ~FlushReady
    /\ PollFlushStep
    /\ UNCHANGED <<owner, decoder, conn, pull, status, sop, sres, writeLens, txn, gate>>

\* the poll's call to the connection completed: it did not report Pending
FlushProgress == FlushAwait /\ io'.res # "Pending"

FlushInit ==
    /\ owner = "Flush"
    /\ decoder = "Codec"
    /\ rd = ReadFrameDefault
    /\ enq \in ItemSeqs
    /\ wr = [WriteFrameDefault EXCEPT !.buffer = EncodeAll(enq, Empty)]
    /\ initial = Empty
    /\ wire = Empty
    /\ delivered = Empty
    /\ conn = "up"
    /\ shut = FALSE
    /\ call = Idle
    /\ pull = NoPull
    /\ ret = NoRet
    /\ io = NoIo
    /\ eofCall = NoEofCall
    /\ yielded = <<>>
    /\ status = "NoSession"
    /\ sop = "none"
    /\ sres = NoSres
    /\ writeLens = <<>>
    /\ txn = NoTxn
    /\ admitted = FALSE
    /\ gate = NoGate

FlushNext ==
    \/ FlushAwait
    \/ PeerClose
    \/ ConnFail

\* the caller keeps polling, and a call to the connection that is tried again
\* and again completes in the end
FlushSpec == FlushInit /\ [][FlushNext]_vars /\ WF_vars(FlushAwait) /\ SF_vars(FlushProgress)

----------------------------------------------------------------------------
(* The runtime-gated Websocket client: the methods of trait Websocket on    *)
(* an AsyncWebsocketClient, each a check of is_open() in front of a do_     *)
(* method of WebsocketBase                                                  *)

\* is_open: both Options are Some
WsIsOpen(g) == g.messages /\ g.websocket

\* the result of a do_ method: the two Options after it and what it returned
Done(websocket, messages, res) ==
    [websocket |-> websocket, messages |-> messages, res |-> res]

\* do_open: connect, then both Options are replaced by Some
DoOpen(g) == {Done(TRUE, TRUE, "Ok")}

\* do_close: todo!()
DoClose(g) == {Done(g.websocket, g.messages, "panic")}

\* do_write: declared by WebsocketBase and left to the implementor: any
\* result, any effect on the two Options
DoWrite(g) ==
    {Done(w, m, r) : w \in BOOLEAN, m \in BOOLEAN, r \in {"Ok", "Err"}}
    \cup {Done(g.websocket, g.messages, "panic")}

\* do_read: declared by WebsocketBase and left to the implementor: any
\* result, any effect on the two Options
DoRead(g) ==
    {Done(w, m, r) : w \in BOOLEAN, m \in BOOLEAN, r \in {"SomeOk", "SomeErr", "None"}}
    \cup {Done(g.websocket, g.messages, "panic")}

\* a method of Websocket may be called: the client has not panicked
Gated ==
    /\ owner = "Websocket"
    /\ gate.res # "panic"
    /\ Len(gate.log) < MaxCalls
    /\ UNCHANGED <<owner, decoder, rd, wr, initial, wire, delivered, conn, shut, call, pull,
                   ret, io, eofCall, enq, yielded, status, sop, sres, writeLens, txn, admitted>>

\* the method op returned res having called the do_ method did (or "none"),
\* which left the Options as in d
Called(op, did, d) ==
    gate' = [websocket |-> d.websocket, messages |-> d.messages,
             op |-> op, wasOpen |-> WsIsOpen(gate), did |-> did, res |-> d.res,
             log |-> Append(gate.log, [op |-> op, open |-> WsIsOpen(gate), did |-> did])]

\* the method returned res at once, with no do_ method called
Refused(op, res) == Called(op, "none", Done(gate.websocket, gate.messages, res))

\* an open that connects again whatever is_open() says
WsOpenAlways ==
    /\ Gated
    /\ \E d \in DoOpen(gate) : Called("open", "do_open", d)

\* Websocket::open
WsOpen ==
    /\ Gated
    /\ IF ~WsIsOpen(gate)
       THEN \E d \in DoOpen(gate) : Called("open", "do_open", d)
       ELSE Refused("open", "Ok")

\* Websocket::close
WsClose ==
    /\ Gated
    /\ IF WsIsOpen(gate)
       THEN \E d \in DoClose(gate) : Called("close", "do_close", d)
       ELSE Refused("close", "Ok")

\* a write that hands the request to do_write whatever is_open() says
WsWriteUngated ==
    /\ Gated
    /\ \E d \in DoWrite(gate) : Called("write", "do_write", d)

\* Websocket::write
WsWrite ==
    /\ Gated
    /\ IF WsIsOpen(gate)
       THEN \E d \in DoWrite(gate) : Called("write", "do_write", d)
       ELSE Refused("write", "NotOpen")

\* Websocket::read
WsRead ==
    /\ Gated
    /\ IF WsIsOpen(gate)
       THEN \E d \in DoRead(gate) : Called("read", "do_read", d)
       ELSE Refused("read", "SomeNotOpen")

GateInit ==
    /\ owner = "Websocket"
    /\ decoder = "Codec"
    /\ rd = ReadFrameDefault
    /\ wr = WriteFrameDefault
    /\ initial = Empty
    /\ wire = Empty
    /\ delivered = Empty
    /\ conn = "none"
    /\ shut = FALSE
    /\ call = Idle
    /\ pull = NoPull
    /\ ret = NoRet
    /\ io = NoIo
    /\ eofCall = NoEofCall
    /\ enq = <<>>
    /\ yielded = <<>>
    /\ status = "NoSession"
    /\ sop = "none"
    /\ sres = NoSres
    /\ writeLens = <<>>
    /\ txn = NoTxn
    /\ admitted = FALSE
    /\ gate = NoGate

GateNext ==
    \/ WsOpen
    \/ WsClose
    \/ WsWrite
    \/ WsRead

GateSpec == GateInit /\ [][GateNext]_vars

----------------------------------------------------------------------------
(* The passthrough Codec on its own: values are encoded into a buffer, the  *)
(* buffer is written to a loopback in short writes, and the peer decodes    *)
(* what has arrived in its buffer                                           *)

BareCodec ==
    /\ owner = "Codec"
    /\ UNCHANGED <<owner, decoder, initial, wire, delivered, conn, shut, call, pull, eofCall,
                   status, sop, sres, txn, admitted, gate>>

\* Codec::encode(data, buf)
CodecEncode ==
    /\ BareCodec
    /\ Len(enq) < MaxSends
    /\ \E data \in CodecItems :
         /\ wr' = [wr EXCEPT !.buffer = Encode(data, @)]
         /\ enq' = Append(enq, data)
    /\ ret' = Ret("encode", "Ok", "")
    /\ io' = NoIo
    /\ UNCHANGED <<rd, yielded, writeLens>>

\* one write of the head of the buffer, of which the loopback takes k bytes
\* and puts them at the tail of the peer's buffer
LoopbackWrite ==
    /\ BareCodec
    /\ wr.buffer # Empty
    /\ Len(writeLens) < MaxWrites
    /\ \E k \in 1..Min(BLen(wr.buffer), MaxWriteLen) :
         LET w == PollWriteBuf(wr.buffer, [res |-> "Ok", n |-> k]) IN
         /\ wr' = [wr EXCEPT !.buffer = w.buf]
         /\ rd' = [rd EXCEPT !.buffer = Cat(@, Take(wr.buffer, w.n))]
         /\ writeLens' = Append(writeLens, w.n)
         /\ io' = Io("write", w.res, w.n)
    /\ ret' = Ret("write", "Ok", "")
    /\ UNCHANGED <<enq, yielded>>

\* Codec::decode(buf) on the peer's buffer
CodecDecodeCall ==
    /\ BareCodec
    /\ LET d == CodecDecode(rd.buffer) IN
         /\ rd' = [rd EXCEPT !.buffer = d.buf]
         /\ yielded' = IF d.tag = "Some" THEN Append(yielded, d.frame) ELSE yielded
         /\ ret' = [Ret("decode", d.tag, d.err) EXCEPT !.decodes = 1, !.dec = d.tag]
    /\ io' = NoIo
    /\ UNCHANGED <<wr, enq, writeLens>>

CodecInit ==
    /\ owner = "Codec"
    /\ decoder = "Codec"
    /\ rd = ReadFrameDefault
    /\ wr = WriteFrameDefault
    /\ initial = Empty
    /\ wire = Empty
    /\ delivered = Empty
    /\ conn = "none"
    /\ shut = FALSE
    /\ call = Idle
    /\ pull = NoPull
    /\ ret = NoRet
    /\ io = NoIo
    /\ eofCall = NoEofCall
    /\ enq = <<>>
    /\ yielded = <<>>
    /\ status = "NoSession"
    /\ sop = "none"
    /\ sres = NoSres
    /\ writeLens = <<>>
    /\ txn = NoTxn
    /\ admitted = FALSE
    /\ gate = NoGate

CodecNext ==
    \/ CodecEncode
    \/ LoopbackWrite
    \/ CodecDecodeCall

CodecSpec == CodecInit /\ [][CodecNext]_vars

----------------------------------------------------------------------------
(* txn_flags: the flags field of a transaction, written as one u32 and read *)
(* back                                                                     *)

\* the variants of the flag enums with their u32 values, in declaration
\* order, which is the order of F::iter()
AccountSetFlag == <<5, 10, 8, 9, 4, 3, 7, 6, 2, 1>>
TrustSetFlag == <<65536, 131072, 262144, 1048576, 2097152>>
OfferCreateFlag == <<65536, 131072, 262144, 524288>>

FlagEnums == {"AccountSetFlag", "TrustSetFlag", "OfferCreateFlag"}

Variants(enum) ==
    CASE enum = "AccountSetFlag" -> AccountSetFlag
      [] enum = "TrustSetFlag" -> TrustSetFlag
      [] OTHER -> OfferCreateFlag

\* the elements of a sequence
Range(seq) == {seq[i] : i \in 1..Len(seq)}

\* the lists of at most MaxFlags distinct flags of an enum, and no list
FlagLists(enum) ==
    {NoFlags} \cup
    {SomeFlags(vec) : vec \in UNION {{v \in [1..n -> Range(Variants(enum))] :
                                          \A i, j \in 1..n : v[i] = v[j] => i = j}
                                      : n \in 0..MaxFlags}}

\* a & b on u32
RECURSIVE BitAnd(_, _)
BitAnd(a, b) ==
    IF a = 0 \/ b = 0 THEN 0
    ELSE (a % 2) * (b % 2) + 2 * BitAnd(a \div 2, b \div 2)

\* serde_json::to_string(&flag) of a repr(u32) flag: its decimal digits
RECURSIVE DecimalString(_)
DecimalString(n) ==
    IF n < 10 THEN <<n>> ELSE Append(DecimalString(n \div 10), n % 10)

\* str::parse::<u32>
RECURSIVE ParseU32(_)
ParseU32(digits) ==
    IF digits = <<>> THEN 0
    ELSE 10 * ParseU32(SubSeq(digits, 1, Len(digits) - 1)) + digits[Len(digits)]

\* flag_num_vec.iter().sum(); the flags of one enum, each once, stay far
\* below 2^32
RECURSIVE Sum(_)
Sum(nums) == IF nums = <<>> THEN 0 ELSE nums[1] + Sum(Tail(nums))

\* txn_flags::serialize: the sum of the flags' numbers, 0 for None
Serialize(flags) == IF flags.some THEN Sum(flags.vec) ELSE 0

\* txn_flags::deserialize: every variant whose number is contained bitwise
\* in the u32, in the order of F::iter(); None when there is none
Deserialize(enum, flags_u32) ==
    LET Set(flag) ==
            LET check_flag == ParseU32(DecimalString(flag))
            IN BitAnd(check_flag, flags_u32) = check_flag
        flags_vec == SelectSeq(Variants(enum), Set)
    IN IF flags_vec = <<>> THEN NoFlags ELSE SomeFlags(flags_vec)

TxnFlags ==
    /\ owner = "txn_flags"
    /\ UNCHANGED <<owner, decoder, rd, wr, initial, wire, delivered, conn, shut, call, pull,
                   ret, io, eofCall, enq, yielded, status, sop, sres, writeLens, admitted, gate>>

\* the transaction is serialized: Flags is written by txn_flags::serialize
TxnSerialize ==
    /\ TxnFlags
    /\ txn.stage = "built"
    /\ txn' = [txn EXCEPT !.num = Serialize(txn.flags), !.stage = "serialized"]

\* the transaction is deserialized: Flags is read by txn_flags::deserialize
TxnDeserialize ==
    /\ TxnFlags
    /\ txn.stage = "serialized"
    /\ txn' = [txn EXCEPT !.out = Deserialize(txn.enum, txn.num), !.stage = "deserialized"]

FlagInit ==
    /\ owner = "txn_flags"
    /\ decoder = "Codec"
    /\ rd = ReadFrameDefault
    /\ wr = WriteFrameDefault
    /\ initial = Empty
    /\ wire = Empty
    /\ delivered = Empty
    /\ conn = "none"
    /\ shut = FALSE
    /\ call = Idle
    /\ pull = NoPull
    /\ ret = NoRet
    /\ io = NoIo
    /\ eofCall = NoEofCall
    /\ enq = <<>>
    /\ yielded = <<>>
    /\ status = "NoSession"
    /\ sop = "none"
    /\ sres = NoSres
    /\ admitted = FALSE
    /\ gate = NoGate
    /\ writeLens = <<>>
    /\ \E enum \in FlagEnums : \E flags \in FlagLists(enum) :
         txn = [NoTxn EXCEPT !.enum = enum, !.flags = flags, !.stage = "built"]

FlagNext ==
    \/ TxnSerialize
    \/ TxnDeserialize

FlagSpec == FlagInit /\ [][FlagNext]_vars

----------------------------------------------------------------------------
(* Claims *)

\* the bytes the connection has accepted from writes so far
Accepted == Cat(delivered, wire)

\* the pull side of a transport built empty around the passthrough Codec, fed
\* by the loopback with exactly the one value enqueued
OneFrameDelivered ==
    /\ owner = "Framed" /\ decoder = "Codec" /\ initial = Empty
    /\ Len(enq) = 1
    /\ wr.buffer = Empty /\ wire = Empty
    /\ delivered = EncodeAll(enq, Empty)

\* the connection is at the end of its stream: closed by the peer or shut down
StreamEnded == conn = "closed" \/ shut

\* C1: when the connection has delivered the bytes of exactly one encoded
\* frame, in any number of short reads, and the pulls have reached the end of
\* the stream, exactly one frame has been yielded
C1_ExactlyOneFrame ==
    (OneFrameDelivered /\ StreamEnded /\ rd.eof /\ ret.op = "poll_next" /\ ret.val = "None")
        => Len(yielded) = 1

\* C2: a value enqueued, flushed through the loopback and pulled on the
\* receiving side comes back as a frame equal to it, with no error
C2_RoundTrip ==
    (OneFrameDelivered /\ ret.op = "poll_next" /\ ret.val \in {"Some", "None", "Err"})
        => (yielded = <<enq[1]>> /\ ret.val # "Err")

\* C3: a write that reports 0 bytes accepted ends the flush at once with the
\* fatal error WriteToTransport; the call is over and writes no more
C3_ZeroWriteFatal ==
    (io.kind = "write" /\ io.res = "Ok" /\ io.n = 0)
        => (ret.val = "Err" /\ ret.err = "WriteToTransport" /\ call = Idle)

C3_Witness ==
    /\ io.kind = "write" /\ io.res = "Ok" /\ io.n = 0
    /\ ret.op = "poll_flush" /\ ret.err = "WriteToTransport"
    /\ wr.buffer # Empty /\ ret.writes >= 2

\* C4: a poll_ready begun with the write buffer at or above the backpressure
\* boundary returns Ok only after its flush wrote to the connection and
\* drained the buffer; begun below the boundary (so also right after a flush
\* that drained the buffer) it returns Ok at once and writes nothing
C4_Admission ==
    ret.op = "poll_ready" =>
        IF ret.startLen >= BACKPRESSURE_BOUNDARY
        THEN ret.val = "Ok" =>
                (wr.buffer = Empty /\ ret.writes >= 1 /\ io = Io("flush", "Ok", 0))
        ELSE /\ ret.val = "Ok" /\ ret.writes = 0 /\ io = NoIo
             /\ BLen(wr.buffer) = ret.startLen

C4_Witness ==
    /\ ret.op = "poll_ready" /\ ret.val = "Ok"
    /\ ret.startLen = BACKPRESSURE_BOUNDARY /\ wr.buffer = Empty

\* C5: decode_eof returns DecodeError exactly when decode returned None and
\* left bytes in the buffer, None when decode returned None on an empty
\* buffer, and the frame when decode returned one; the leftover bytes of a
\* partial frame stay in the buffer and the pull returns the error
C5_DecodeEof ==
    eofCall.called =>
        /\ (eofCall.err = "DecodeError") <=> (eofCall.dec = "None" /\ ~eofCall.empty)
        /\ (eofCall.dec = "None" /\ eofCall.empty) => (eofCall.out = "None" /\ ret.val = "None")
        /\ eofCall.dec = "Some" => (eofCall.out = "Some" /\ ret.val = "Some")
        /\ eofCall.err = "DecodeError" =>
              (ret.val = "Err" /\ rd.has_errored /\ rd.buffer # Empty)

C5_Witness ==
    /\ eofCall.called /\ eofCall.err = "DecodeError"
    /\ eofCall.dec = "None" /\ rd.buffer # Empty

\* C6: send, on_message and close act only on an Open session and open only
\* on a Closed one; a Closed session has sent and received nothing; once the
\* session is consumed by close nothing acts on it any more
C6_TypestateGating ==
    /\ sres.op \in {"send", "on_message", "close"} => sres.on = "Open"
    /\ sres.op = "open" => sres.on = "Closed"
    /\ sop # "none" => status = "Open"
    /\ status = "consumed" => (sres.op = "close" /\ sop = "none")
    /\ status = "Closed" => (conn = "none" /\ enq = <<>> /\ yielded = <<>> /\ ~shut)

C6_Witness ==
    /\ status = "consumed" /\ sres = Sres("close", "Open", "Ok")
    /\ Len(enq) = MaxSends

\* C7: close flushes first and shuts the connection down only then, never
\* with bytes left in the write buffer; a failure of the flush is what
\* poll_close and the session's close return, and no shutdown is made
C7_CloseOrdering ==
    /\ io.kind = "shutdown" => (wr.buffer = Empty /\ ret.op = "poll_close")
    /\ (ret.op = "poll_close" /\ ret.val = "Ok")
          => (wr.buffer = Empty /\ shut /\ io = Io("shutdown", "Ok", 0))
    /\ (call.op = "poll_close" /\ call.flushed) => wr.buffer = Empty
    /\ (ret.op = "poll_close" /\ io.kind \in {"write", "flush"}
          /\ (io.res = "Err" \/ (io.kind = "write" /\ io.res = "Ok" /\ io.n = 0)))
          => (ret.val = "Err" /\ call = Idle)
    /\ (sres.op = "close" /\ ret.op = "poll_close")
          => (sres.val = "Ok" <=> ret.val = "Ok")

C7_Witness ==
    /\ sres = Sres("close", "Open", "Tungstenite")
    /\ ret.op = "poll_close" /\ ret.err = "WriteToTransport"
    /\ wr.buffer # Empty /\ ~shut

\* C8: open returns Ok with an Open session on the connection when the
\* handshake succeeds, and an error value with no session when it fails
C8_OpenOutcome ==
    io.kind = "connect" =>
        /\ io.res = "Ok" => (sres = Sres("open", "Closed", "Ok") /\ status = "Open" /\ conn = "up")
        /\ io.res = "Err" => (sres = Sres("open", "Closed", "Err") /\ status = "Closed")

\* C9: is_open is true exactly when the session's connection is connected
C9_IsOpenLive ==
    status \in {"Closed", "Open"} => (IsOpen(status) <=> conn = "up")

OnMessageReturned ==
    /\ sres.op = "on_message" /\ ret.op = "poll_next"
    /\ ret.val \notin {"running", "Pending"}

C13_PrefixConsumption ==
    Cat(Accepted, wr.buffer) = EncodeAll(enq, Empty)

C13_Witness ==
    /\ ret.op = "poll_flush" /\ ret.val = "Pending" /\ ret.writes >= 1
    /\ wr.buffer # Empty /\ Accepted # Empty /\ Len(enq) = MaxSends

\* C14: "hello world", 11 bytes, encoded through the passthrough Codec and
\* delivered to the loopback peer in three writes of 4, 4 and 3 bytes: the
\* peer's one decode call returns one frame with the 11 bytes, equal to the
\* value sent, and no error
C14_HelloWorld ==
    (/\ enq = <<HelloWorld>> /\ writeLens = <<4, 4, 3>>
     /\ ret.op = "decode"
     /\ (yielded = <<>> \/ (Len(yielded) = 1 /\ ret.val = "Some")))
        => /\ ret.val = "Some" /\ ret.err = ""
           /\ yielded = <<HelloWorld>> /\ BLen(yielded[1]) = 11
           /\ rd.buffer = Empty

C14_Witness ==
    /\ enq = <<HelloWorld>> /\ writeLens = <<4, 4, 3>>
    /\ ret.op = "decode" /\ yielded = <<HelloWorld>> /\ wr.buffer = Empty

\* C15: decode on a non-empty buffer returns one frame equal to the whole
\* buffer and leaves the buffer empty; on an empty buffer it returns None and
\* leaves the buffer as it is; encode puts the bytes given at the tail of the
\* buffer and leaves the bytes already there as they are
C15_Passthrough ==
    [][/\ ret'.op = "decode" =>
            IF rd.buffer # Empty
            THEN /\ ret'.val = "Some" /\ yielded' = Append(yielded, rd.buffer)
                 /\ rd'.buffer = Empty
            ELSE /\ ret'.val = "None" /\ yielded' = yielded
                 /\ rd'.buffer = rd.buffer
       /\ ret'.op = "encode" =>
            /\ Take(wr'.buffer, BLen(wr.buffer)) = wr.buffer
            /\ Drop(wr'.buffer, BLen(wr.buffer)) = enq'[Len(enq')]
            /\ BLen(wr'.buffer) = BLen(wr.buffer) + BLen(enq'[Len(enq')])
      ]_vars

C15_Witness ==
    /\ ret.op = "decode" /\ ret.val = "Some" /\ rd.buffer = Empty
    /\ Len(enq) = 2 /\ enq[1] # enq[2] /\ wr.buffer # Empty

\* C16: a list of distinct flags written by txn_flags::serialize and read
\* back by txn_flags::deserialize comes back as the same set of flags, none
\* added and none missing; no list and the empty list come back as None
C16_FlagRoundTrip ==
    txn.stage = "deserialized" =>
        IF txn.flags.some /\ txn.flags.vec # <<>>
        THEN /\ txn.out.some
             /\ Range(txn.out.vec) = Range(txn.flags.vec)
             /\ Len(txn.out.vec) = Len(txn.flags.vec)
        ELSE txn.out = NoFlags

\* C17: a pull begun with has_errored set clears has_errored and is_readable,
\* decodes nothing, reads nothing and returns None; every pull that returned
\* an error left has_errored set, so the pull after it is such a pull; and the
\* pull after that, begun with both flags clear, reads from the connection
C17_ErroredPull ==
    [][ret'.op = "poll_next" =>
          /\ rd.has_errored =>
                /\ ~rd'.has_errored /\ ~rd'.is_readable
                /\ rd'.buffer = rd.buffer /\ rd'.eof = rd.eof
                /\ ret'.val = "None" /\ ret'.decodes = 0 /\ ret'.reads = 0
                /\ io' = NoIo /\ eofCall' = NoEofCall
                /\ wire' = wire /\ yielded' = yielded
          /\ (ret.op = "poll_next" /\ ret.val = "Err") => rd.has_errored
          /\ (~rd.has_errored /\ ~rd.is_readable /\ ~pull.active)
                => (io'.kind = "read" /\ ret'.reads = 1)
      ]_vars

C17_Witness ==
    /\ ret.op = "poll_next" /\ ret.val = "None" /\ ret.decodes = 0 /\ ret.reads = 0
    /\ ~rd.has_errored /\ ~rd.is_readable
    /\ conn = "up" /\ rd.buffer # Empty

\* C18: a failure of decode, of decode_eof or of the read is returned by the
\* pull it happens in, with has_errored set; the pull is over, and the
\* iteration that failed to decode makes no read
C18_ErrorPropagation ==
    ret.op = "poll_next" =>
        /\ (ret.dec = "Err" \/ (io.kind = "read" /\ io.res = "Err"))
              => (ret.val = "Err" /\ ret.err # "" /\ rd.has_errored /\ pull = NoPull)
        /\ ret.dec = "Err" => io = NoIo
        /\ (eofCall.called /\ eofCall.out = "Err") => ret.dec = "Err"

C18_Witness ==
    /\ ret.op = "poll_next" /\ ret.val = "Err" /\ rd.has_errored
    /\ io.kind = "read" /\ io.res = "Err" /\ ret.dec = "None" /\ ret.decodes = 1

\* C19: a read of 0 bytes with eof unset sets eof and is_readable and the
\* pull goes on to one decode_eof pass, after which it returns; a read of 0
\* bytes with eof set returns None with no decode; a read that takes bytes
\* from the connection clears eof, sets is_readable and loops back to decode
C19_EofTransitions ==
    [][ret'.op = "poll_next" =>
          /\ (io'.kind = "read" /\ io'.res = "Ok") =>
                IF delivered' # delivered
                THEN ~rd'.eof /\ rd'.is_readable /\ pull'.active
                ELSE IF rd.eof
                     THEN ret'.val = "None" /\ ret'.dec = "none" /\ eofCall' = NoEofCall
                     ELSE rd'.eof /\ rd'.is_readable /\ pull'.active
          /\ (pull.active /\ rd.eof) => (eofCall'.called /\ ~pull'.active)
      ]_vars

\* C20: a pull begun with is_readable and eof both set calls decode_eof and
\* reads nothing; a frame is yielded, taken off the front of the buffer, and
\* the buffer stays readable for the next pull; None, given only on an empty
\* buffer, clears is_readable and ends the sequence
C20_EofDraining ==
    [][(ret'.op = "poll_next" /\ ~rd.has_errored /\ rd.is_readable /\ rd.eof) =>
          /\ eofCall'.called /\ io' = NoIo
          /\ ret'.reads = pull.reads /\ wire' = wire
          /\ eofCall'.out = "Some" =>
                /\ ret'.val = "Some" /\ rd'.is_readable /\ rd'.eof
                /\ Len(yielded') = Len(yielded) + 1
                /\ Cat(yielded'[Len(yielded')], rd'.buffer) = rd.buffer
          /\ eofCall'.out = "None" =>
                /\ ret'.val = "None" /\ ~rd'.is_readable /\ rd'.eof
                /\ yielded' = yielded /\ rd'.buffer = Empty
      ]_vars

C20_Witness ==
    /\ decoder = "dyn" /\ eofCall.called /\ eofCall.out = "Some"
    /\ Len(yielded) = 2 /\ Cat(yielded[1], yielded[2]) = initial
    /\ rd.eof /\ rd.is_readable /\ rd.buffer = Empty


\* C21: admission precedes enqueue: every start_send made through the
\* session's send is preceded by a poll_ready that returned Ok since the
\* previous start_send, and the write buffer it encodes into is below the
\* backpressure boundary
C21_AdmissionPrecedesEnqueue ==
    [][(owner = "Session" /\ ret'.op = "start_send" /\ sres'.op = "send")
         => (admitted /\ ret'.startLen < BACKPRESSURE_BOUNDARY)]_vars


\* C22: enqueue is buffer-local: start_send returns Ok having appended the
\* encoded bytes of the value to the tail of the write buffer; it makes no
\* write, flush or shutdown on the connection, and it leaves the connection,
\* the read frame (buffer, eof, is_readable, has_errored) and the bytes
\* already in the write buffer as they were
C22_EnqueueLocal ==
    [][(ret'.op = "start_send" /\ enq' # enq)
         => LET item == enq'[Len(enq')] IN
            /\ ret'.val = "Ok"
            /\ enq' = Append(enq, item)
            /\ wr'.buffer = Cat(wr.buffer, Encode(item, Empty))
            /\ Take(wr'.buffer, BLen(wr.buffer)) = wr.buffer
            /\ io' = NoIo
            /\ wire' = wire /\ delivered' = delivered
            /\ conn' = conn /\ shut' = shut
            /\ rd' = rd]_vars

\* an enqueue onto a write buffer that already holds a value, in front of a
\* read buffer that holds bytes
C22_Witness ==
    /\ ret.op = "start_send" /\ Len(enq) = 2 /\ wire = Empty
    /\ wr.buffer = Cat(enq[1], enq[2])
    /\ rd.buffer # Empty /\ io = NoIo


\* C23: flush ordering: the connection's own flush is called only on an empty
\* write buffer; poll_flush returns Ok only with the write buffer empty and
\* the connection's flush having returned Ok; when a write would block,
\* poll_flush returns Pending with the unwritten bytes still in the buffer
\* (all of them when no write of the call was accepted before)
C23_FlushOrdering ==
    /\ io.kind = "flush" => wr.buffer = Empty
    /\ (ret.op = "poll_flush" /\ ret.val = "Ok")
         => (wr.buffer = Empty /\ io = Io("flush", "Ok", 0))
    /\ (ret.op = "poll_flush" /\ io.kind = "write" /\ io.res = "Pending")
         => /\ ret.val = "Pending"
            /\ wr.buffer # Empty /\ BLen(wr.buffer) <= ret.startLen
            /\ ret.writes = 0 => BLen(wr.buffer) = ret.startLen

\* a poll_flush that returned Ok after two accepted writes and the
\* connection's flush
C23_Witness ==
    /\ ret.op = "poll_flush" /\ ret.val = "Ok" /\ ret.writes >= 2
    /\ io = Io("flush", "Ok", 0) /\ wr.buffer = Empty /\ wire # Empty


\* C24: the errored state blocks decoding: while has_errored is set no pull is
\* in progress; a pull begun with has_errored set makes no decode and no
\* decode_eof call, clears has_errored and is_readable and returns None; so a
\* decode or decode_eof call is made only by an iteration begun with
\* has_errored false
C24_ErroredBlocksDecoding ==
    /\ rd.has_errored => (~pull.active /\ (ret.op = "poll_next" => ret.val # "running"))
    /\ ret.op = "poll_next" =>
         /\ ret.errored =>
              /\ ret.dec = "none" /\ ret.decodes = 0 /\ ~eofCall.called
              /\ ~rd.has_errored /\ ~rd.is_readable
              /\ ret.val = "None"
         /\ (ret.dec # "none" \/ ret.decodes > 0 \/ eofCall.called) => ~ret.errored

\* the pull after a decode_eof that failed on leftover bytes: nothing is
\* decoded, the bytes stay, both flags are clear
C24_Witness ==
    /\ ret.op = "poll_next" /\ ret.errored /\ ret.dec = "none"
    /\ rd.eof /\ rd.buffer # Empty /\ ~rd.has_errored /\ ~rd.is_readable


\* C25: a suspended pull leaves the state intact: when the read would block
\* the pull returns Pending, yields no frame, no error and no end of
\* sequence, takes nothing from the connection and leaves the read buffer,
\* eof and has_errored unchanged; the pull made right after it begins with
\* the read, before any decode, on a buffer that still starts with the bytes
\* it held
C25_SuspendedPull ==
    [][ret'.op = "poll_next" =>
          /\ (io'.kind = "read" /\ io'.res = "Pending") =>
                /\ ret'.val = "Pending" /\ ~pull'.active
                /\ yielded' = yielded
                /\ wire' = wire /\ delivered' = delivered
                /\ rd'.buffer = rd.buffer
                /\ rd'.eof = rd.eof
                /\ rd'.has_errored = rd.has_errored /\ ~rd'.has_errored
          /\ (ret.op = "poll_next" /\ ret.val = "Pending") =>
                /\ io'.kind = "read" /\ ret'.reads = 1 /\ ret'.dec = "none"
                /\ Take(rd'.buffer, BLen(rd.buffer)) = rd.buffer
      ]_vars

\* a pull suspended on a read after a decode that returned None on buffered
\* bytes: the bytes are still there
C25_Witness ==
    /\ ret.op = "poll_next" /\ ret.val = "Pending" /\ ret.dec = "None"
    /\ io = Io("read", "Pending", 0)
    /\ rd.buffer # Empty /\ rd.buffer = initial /\ ~rd.eof /\ ~rd.is_readable


\* the frames yielded so far, one after the other
RECURSIVE Joined(_)
Joined(frames) ==
    IF frames = <<>> THEN Empty ELSE Cat(frames[1], Joined(Tail(frames)))

\* C26: inbound byte conservation: with the passthrough Codec the frames
\* yielded so far followed by the read buffer are the bytes the read buffer
\* was built with followed by the bytes read from the connection so far
C26_InboundConservation ==
    decoder = "Codec" => Cat(Joined(yielded), rd.buffer) = Cat(initial, delivered)


\* poll_flush returned Ok with the write buffer empty, or returned an error
FlushReturned ==
    /\ ret.op = "poll_flush"
    /\ (ret.val = "Ok" /\ wr.buffer = Empty) \/ ret.val = "Err"

EofBuffers ==
    {Empty, HelloWorld, BigItem} \cup {rd.buffer, wr.buffer, wire, delivered}

\* C28: the passthrough Codec never reports leftover bytes: decode_eof of the
\* passthrough Codec returns Ok(None) on the empty buffer and, on any other
\* buffer, Ok(Some(frame)) with all the bytes in the frame and none left; so
\* a pull that calls decode_eof with this codec yields a frame or the end of
\* the sequence, never an error, and leaves has_errored clear
C28_PassthroughEof ==
    /\ \A buf \in EofBuffers :
         DecodeEof(CodecDecode(buf)) = IF buf = Empty THEN DecNone(Empty) ELSE DecOk(buf, Empty)
    /\ (decoder = "Codec" /\ eofCall.called) =>
         /\ eofCall.out \in {"Some", "None"} /\ eofCall.err = ""
         /\ ret.val = eofCall.out /\ ret.err = ""
         /\ rd.buffer = Empty /\ ~rd.has_errored

\* a pull at end of stream through decode_eof of the passthrough Codec, after
\* the bytes the read buffer was built with were yielded as one frame: it
\* returns the end of the sequence
C28_Witness ==
    /\ decoder = "Codec" /\ eofCall.called /\ eofCall.out = "None"
    /\ ret.op = "poll_next" /\ ret.val = "None"
    /\ initial # Empty /\ yielded = <<initial>> /\ rd.eof


\* C29: the runtime-gated Websocket rejects I/O when not open: a write made
\* while is_open() is false returns Err(NotOpen), a read made while it is
\* false returns Some(Err(NotOpen)), neither calls a do_ method nor touches
\* the client; do_write and do_read were called only by calls that found
\* is_open() true
C29_RejectsWhenNotOpen ==
    /\ (gate.op = "write" /\ ~gate.wasOpen) => (gate.res = "NotOpen" /\ gate.did = "none")
    /\ (gate.op = "read" /\ ~gate.wasOpen) => (gate.res = "SomeNotOpen" /\ gate.did = "none")
    /\ (gate.op \in {"write", "read"} /\ ~gate.wasOpen) => ~WsIsOpen(gate)
    /\ \A i \in 1..Len(gate.log) :
         gate.log[i].did \in {"do_write", "do_read"} => gate.log[i].open

\* a write refused on a client that was open before: do_open, then a do_write
\* that lost the connection, then the write that returns NotOpen
C29_Witness ==
    /\ gate.op = "write" /\ ~gate.wasOpen /\ gate.res = "NotOpen"
    /\ Len(gate.log) = 3 /\ gate.log[1].did = "do_open" /\ gate.log[2].did = "do_write"

\* C30: open and close of the runtime-gated Websocket are idempotent: an
\* open made while is_open() is true and a close made while it is false
\* return Ok, call no do_ method and leave the client as it was; do_open was
\* called only by calls that found is_open() false, do_close only by calls
\* that found it true
C30_OpenCloseIdempotent ==
    /\ (gate.op = "open" /\ gate.wasOpen) =>
         (gate.res = "Ok" /\ gate.did = "none" /\ WsIsOpen(gate))
    /\ (gate.op = "close" /\ ~gate.wasOpen) =>
         (gate.res = "Ok" /\ gate.did = "none" /\ ~WsIsOpen(gate))
    /\ \A i \in 1..Len(gate.log) :
         /\ gate.log[i].did = "do_open" => ~gate.log[i].open
         /\ gate.log[i].did = "do_close" => gate.log[i].open
         /\ gate.log[i].op = "open" => (gate.log[i].did = "do_open" <=> ~gate.log[i].open)
         /\ gate.log[i].op = "close" => (gate.log[i].did = "do_close" <=> gate.log[i].open)

\* a close on a client never opened, an open that connects, and a second open
\* that returns Ok at once
C30_Witness ==
    /\ gate.op = "open" /\ gate.wasOpen /\ gate.did = "none" /\ gate.res = "Ok"
    /\ Len(gate.log) = 3
    /\ gate.log[1] = [op |-> "close", open |-> FALSE, did |-> "none"]
    /\ gate.log[2] = [op |-> "open", open |-> FALSE, did |-> "do_open"]

====
